---- MODULE Spec2Model ----
(***************************************************************************)
(* Carbon model service of af-carbon-dash: the carbon-unit converter       *)
(* (compute_carbon_units), the proforma engine (compute_proforma,          *)
(* compute_summaries) and the HTTP handlers that call them.                *)
(*                                                                         *)
(* Floating-point columns are modelled as exact rationals <<n, d>> in      *)
(* lowest terms with d > 0; <<0, 0>> is NaN and <<1, 0>> is Python's None. *)
(* Row labels of a DataFrame are 0-based, as in pandas.                    *)
(***************************************************************************)
EXTENDS Integers, Sequences, FiniteSets, TLC

VARIABLES
    units_req,   \* CarbonUnitsRequest handled by the converter, with the ruleset in effect
    df_units,    \* outcome of compute_carbon_units: status and rows
    pf_req,      \* ProformaRequest handled by run_proforma: df_ert_ac and params
    df_pf,       \* outcome of compute_proforma: status and rows
    merged,      \* the frames `merged` compute_carbon_units built, one per protocol
    summaries_df, \* outcome of compute_summaries: status and rows
    http_status, \* status of the HTTP response of the handler that ran last
    carbon_req,  \* CarbonInputs handled by calculate_carbon, with the coefficients table
    c_scores,    \* rows of compute_carbon_scores before rounding: Year, C_Score, Annual_C_Score
    carbon_df    \* carbon_df of the response of calculate_carbon

carbon_vars == <<carbon_req, c_scores, carbon_df>>

\* the Streamlit session of the planting page
VARIABLES
    session_state,   \* st.session_state: a dict from keys to values
    session_before,  \* st.session_state before the call that ran last
    last_call,       \* the call that ran last, with the keys it was given
    at_backup        \* the keys and their values at the last _backup_keys, while
                     \* nothing but removals of these keys and restores followed

session_vars == <<session_state, session_before, last_call, at_backup>>

\* the configuration of the Streamlit front end
VARIABLES
    api_config,      \* Streamlit secrets and environment of the process
    api_base_url     \* what get_api_base_url() gave: a URL or RuntimeError

config_vars == <<api_config, api_base_url>>

\* the workflow of the project page
VARIABLE
    chart            \* the runs of run_chart so far, and the CU data that the
                     \* proforma of the last run was computed from

vars == <<units_req, merged, df_units, pf_req, df_pf, summaries_df, http_status, carbon_vars,
          session_vars, config_vars, chart>>

(***************************************************************************)
(* Bounds of the model.                                                    *)
(***************************************************************************)
MaxPoints == 4      \* longest carbon series handed to the converter
ShortRows == 3      \* length of the series with gaps and of the late series
MaxKeys == 3        \* most years in a coefficients table
MaxRuns == 3        \* most runs of run_chart
MaxValue == 2       \* largest value of a slider
MaxRows == 6        \* longest per-protocol CU series handed to run_proforma directly

(***************************************************************************)
(* Numbers.                                                                *)
(***************************************************************************)
Tup(f) == f \o <<>>

Abs(x) == IF x < 0 THEN -x ELSE x

RECURSIVE GCD(_, _)
GCD(a, b) == IF b = 0 THEN a ELSE GCD(b, a % b)

Rat(n, d) ==
    LET g == GCD(Abs(n), Abs(d))
        s == IF d < 0 THEN -1 ELSE 1
    IN  <<(s * n) \div g, (s * d) \div g>>

NaN == <<0, 0>>
None == <<1, 0>>
IsNum(a) == a[2] # 0
RInt(k) == <<k, 1>>
Zero == <<0, 1>>
One == <<1, 1>>

RAdd(a, b) ==
    IF IsNum(a) /\ IsNum(b)
    THEN LET g == GCD(a[2], b[2])
         IN  Rat(a[1] * (b[2] \div g) + b[1] * (a[2] \div g), a[2] * (b[2] \div g))
    ELSE NaN

RNeg(a) == IF IsNum(a) THEN <<-a[1], a[2]>> ELSE NaN

RSub(a, b) == RAdd(a, RNeg(b))

RMul(a, b) ==
    IF IsNum(a) /\ IsNum(b)
    THEN LET g1 == GCD(Abs(a[1]), b[2])
             g2 == GCD(Abs(b[1]), a[2])
         IN  IF a[1] = 0 \/ b[1] = 0 THEN Zero
             ELSE <<(a[1] \div g1) * (b[1] \div g2), (a[2] \div g2) * (b[2] \div g1)>>
    ELSE NaN

RDiv(a, b) ==
    IF IsNum(a) /\ IsNum(b) /\ b[1] # 0
    THEN RMul(a, IF b[1] < 0 THEN <<-b[2], -b[1]>> ELSE <<b[2], b[1]>>)
    ELSE NaN

RLe(a, b) == a[1] * b[2] <= b[1] * a[2]

RECURSIVE RPow(_, _)
RPow(a, e) ==
    IF e = 0 THEN One
    ELSE IF e < 0 THEN RDiv(One, RPow(a, -e))
    ELSE RMul(a, RPow(a, e - 1))

RECURSIVE RSum(_)
RSum(s) == IF Len(s) = 0 THEN Zero ELSE RAdd(RSum(SubSeq(s, 1, Len(s) - 1)), s[Len(s)])

(***************************************************************************)
(* Protocol rules.                                                         *)
(***************************************************************************)
ACR == "ACR/CAR/VERRA"

\* the protocol ids in the order groupby("Protocol") yields them (sorted keys)
ProtocolOrder == <<"ACR/CAR/VERRA", "GS", "ISO", "XYZ">>

Rule(buf, coeff, apply_buf) == [BUF |-> buf, coeff |-> coeff, apply_buf |-> apply_buf]

\* faulty variant: the buffers of ACR/CAR/VERRA and ISO exchanged
DefaultRules_swapped_buffers ==
    [p \in {ACR, "GS", "ISO"} |->
        IF p = "GS" THEN Rule(Zero, One, FALSE)
        ELSE IF p = ACR THEN Rule(<<1, 4>>, One, TRUE)
        ELSE Rule(<<1, 5>>, One, TRUE)]

DefaultRules ==
    (ACR :> Rule(<<1, 5>>, One, TRUE))
    @@ ("GS" :> Rule(Zero, One, FALSE))
    @@ ("ISO" :> Rule(<<1, 4>>, One, TRUE))

NoRules == [x \in {} |-> x]

(***************************************************************************)
(* Carbon Unit Converter: compute_carbon_units.                            *)
(***************************************************************************)
CO2Factor == <<3667, 1000>>   \* 3.667
SplineOrder == 3              \* make_interp_spline(X, y, k=3)

RECURSIVE SortByYear(_)
SortByYear(df) ==
    IF Len(df) <= 1 THEN df
    ELSE LET h == Head(df)
             rest == SortByYear(Tail(df))
             k == Cardinality({i \in 1..Len(rest) : rest[i].Year < h.Year})
         IN  SubSeq(rest, 1, k) \o <<h>> \o SubSeq(rest, k + 1, Len(rest))

StrictlyIncreasing(X) == \A i \in 1..(Len(X) - 1) : X[i] < X[i + 1]

Cube(x) == x * x * x

\* The k-th function of a basis of the cubic splines with knots
\* X[3], ..., X[n-2] (not-a-knot: no knot at X[2] and X[n-1]).
Basis(X, k, x) ==
    IF k = 1 THEN 1
    ELSE IF k = 2 THEN x - X[1]
    ELSE IF k = 3 THEN (x - X[1]) * (x - X[1])
    ELSE IF k = 4 THEN Cube(x - X[1])
    ELSE IF x > X[k - 2] THEN Cube(x - X[k - 2]) ELSE 0

\* Gauss-Jordan elimination of the n x (n+1) system M, from column k on.
RECURSIVE Solve(_, _, _)
Solve(M, n, k) ==
    IF k > n THEN M
    ELSE LET rowk == Tup([j \in 1..(n + 1) |-> RDiv(M[k][j], M[k][k])])
             M2 == Tup([i \in 1..n |->
                      IF i = k THEN rowk
                      ELSE IF M[i][k][1] = 0 THEN M[i]
                      ELSE Tup([j \in 1..(n + 1) |->
                                  RSub(M[i][j], RMul(M[i][k], rowk[j]))])])
         IN  Solve(M2, n, k + 1)

\* Coefficients of the interpolating spline in the basis above: the spline
\* takes the value y[i] at every X[i].
SplineCoefficients(X, y) ==
    LET n == Len(X)
        M0 == Tup([i \in 1..n |-> Tup([j \in 1..(n + 1) |->
                 IF j = n + 1 THEN y[i] ELSE RInt(Basis(X, j, X[i]))])])
        M == Solve(M0, n, 1)
    IN  Tup([k \in 1..n |-> M[k][n + 1]])

SplineAt(X, c, x) == RSum(Tup([k \in 1..Len(X) |-> RMul(c[k], RInt(Basis(X, k, x)))]))

\* spline(years_interp) for years_interp = arange(X.min(), X.max() + 1)
SplineValues(X, c) == Tup([i \in 1..(X[Len(X)] - X[1] + 1) |-> SplineAt(X, c, X[1] + i - 1)])

make_interp_spline(X, y) == SplineValues(X, SplineCoefficients(X, y))

\* Series.diff(): NaN in the first row
Diff(v) == Tup([i \in 1..Len(v) |-> IF i = 1 THEN NaN ELSE RSub(v[i], v[i - 1])])

\* The frame `merged` of one protocol, before the rows without CU are dropped.
\* faulty variant: the buffer is added to the net delta
MergedRow_buffer_added(year, project, d_project, d_baseline, rules, protocol) ==
    LET C_total == RSub(d_project, d_baseline)
        BUF == IF rules.apply_buf THEN RMul(C_total, rules.BUF) ELSE Zero
    IN  [Year |-> year, project |-> project, delta_project |-> d_project,
         delta_baseline |-> d_baseline, C_total |-> C_total, BUF |-> BUF,
         CU |-> RAdd(C_total, BUF), Protocol |-> protocol]

MergedRow(year, project, d_project, d_baseline, rules, protocol) ==
    LET C_total == RSub(d_project, d_baseline)
        BUF == IF rules.apply_buf THEN RMul(C_total, rules.BUF) ELSE Zero
    IN  [Year |-> year, project |-> project, delta_project |-> d_project,
         delta_baseline |-> d_baseline, C_total |-> C_total, BUF |-> BUF,
         CU |-> RSub(C_total, BUF), Protocol |-> protocol]

MergedOf(X, y_interp, rules, protocol) ==
    LET d_project == Diff(y_interp)
        d_baseline == Diff(Tup([i \in 1..Len(y_interp) |-> Zero]))
    IN  Tup([i \in 1..Len(y_interp) |->
               MergedRow(X[1] + i - 1, y_interp[i], d_project[i], d_baseline[i],
                         rules, protocol)])

Merged(df_carbon, rules, protocol) ==
    LET df_poly == SortByYear(Tup([i \in 1..Len(df_carbon) |->
                       [Year |-> df_carbon[i].Year,
                        Onsite_Total_CO2 |->
                            RMul(RMul(df_carbon[i].C_Score, CO2Factor), rules.coeff)]]))
        X == Tup([i \in 1..Len(df_poly) |-> df_poly[i].Year])
        y == Tup([i \in 1..Len(df_poly) |-> df_poly[i].Onsite_Total_CO2])
    IN  MergedOf(X, make_interp_spline(X, y), rules, protocol)

HasCU(r) == IsNum(r.CU)

UnitRow(r) == [Year |-> r.Year, CU |-> r.CU, Protocol |-> r.Protocol]

\* merged.dropna(subset=["CU"])[["Year", "CU", "Protocol"]]
ProtocolUnits(frame) ==
    LET kept == SelectSeq(frame, HasCU)
    IN  Tup([i \in 1..Len(kept) |-> UnitRow(kept[i])])

\* faulty variant: every protocol is converted with the fallback rule
RulesFor_fallback_only(ruleset, protocol) == ruleset.table[ACR]

\* rules = ruleset.get(protocol, ruleset["ACR/CAR/VERRA"]): the default is
\* looked up before get is called.
RulesFor(ruleset, protocol) ==
    IF protocol \in DOMAIN ruleset.table THEN ruleset.table[protocol]
    ELSE ruleset.table[ACR]

\* What stops the loop body for the first protocol, "ok" if nothing does.
\* A ruleset parsed by the request schema holds ProtocolRule objects, which
\* rules["coeff"] cannot subscript.
BodyStatus(df_carbon, ruleset) ==
    IF ACR \notin DOMAIN ruleset.table THEN "KeyError"
    ELSE IF Len(df_carbon) = 0 THEN "KeyError"
    ELSE IF ruleset.as_model THEN "TypeError"
    ELSE IF Len(df_carbon) < SplineOrder + 1 THEN "ValueError"
    ELSE IF ~StrictlyIncreasing(LET s == SortByYear(df_carbon)
                                IN  Tup([i \in 1..Len(s) |-> s[i].Year]))
         THEN "ValueError"
    ELSE "ok"

\* the frames `merged` of the protocols, in the order of the request
RECURSIVE MergedFrames(_, _, _)
MergedFrames(df_carbon, protocols, ruleset) ==
    IF Len(protocols) = 0 THEN <<>>
    ELSE <<Merged(df_carbon, RulesFor(ruleset, Head(protocols)), Head(protocols))>>
         \o MergedFrames(df_carbon, Tail(protocols), ruleset)

\* the loop over the protocols: the first iteration that raises ends the call
ProtocolLoop(df_carbon, protocols, ruleset) ==
    IF Len(protocols) = 0 THEN [status |-> "ok", frames |-> <<>>]
    ELSE IF BodyStatus(df_carbon, ruleset) # "ok"
    THEN [status |-> BodyStatus(df_carbon, ruleset), frames |-> <<>>]
    ELSE [status |-> "ok", frames |-> MergedFrames(df_carbon, protocols, ruleset)]

RECURSIVE ConcatUnits(_)
ConcatUnits(frames) ==
    IF Len(frames) = 0 THEN <<>>
    ELSE ProtocolUnits(Head(frames)) \o ConcatUnits(Tail(frames))

\* pd.concat(all_protocol_dfs, ignore_index=True): no frame, no concatenation
ConcatFrames(loop) ==
    IF loop.status # "ok" THEN [status |-> loop.status, rows |-> <<>>]
    ELSE IF Len(loop.frames) = 0 THEN [status |-> "ValueError", rows |-> <<>>]
    ELSE [status |-> "ok", rows |-> ConcatUnits(loop.frames)]

compute_carbon_units(df_carbon, protocols, ruleset) ==
    ConcatFrames(ProtocolLoop(df_carbon, protocols, ruleset))

(***************************************************************************)
(* Proforma Engine: compute_proforma and compute_summaries.                *)
(***************************************************************************)
CheckpointPeriod == 5   \* a sale and a verification every 5th year
TrailingRows == 4       \* df.loc[max(0, i - 4):i]
NpvYears == 20          \* npv_years

\* skipna sums of pandas
NumOrZero(a) == IF IsNum(a) THEN a ELSE Zero

\* the labels (0-based) of the rows of a protocol: the index of its subdf
GroupLabels(df, protocol) == {i \in 0..(Len(df) - 1) : df[i + 1].Protocol = protocol}

Max(a, b) == IF a >= b THEN a ELSE b

\* faulty variant: no sale in the start year
IsSaleYear_after_start(year, p) ==
    (year - p.year_start) % CheckpointPeriod = 0 /\ year > p.year_start

IsSaleYear(year, p) ==
    \/ year = p.year_start
    \/ ((year - p.year_start) % CheckpointPeriod = 0 /\ year > p.year_start)

\* faulty variant: the per-acre units are not scaled to the project
ProjectCU_per_acre(df, i, p) == df[i + 1].CU

\* df['CU'] = df['CU_ac'] * p['net_acres']
ProjectCU(df, i, p) == RMul(df[i + 1].CU, p.net_acres)

\* faulty variant: the window starts at the first row of the group
WindowLabels_from_first_row(df, i, back) ==
    {l \in GroupLabels(df, df[i + 1].Protocol) : l <= i}

\* the labels of the rows of the group of row i that lie in max(0, i - back) .. i
WindowLabels(df, i, back) ==
    {l \in GroupLabels(df, df[i + 1].Protocol) : Max(0, i - back) <= l /\ l <= i}

\* the sum of CU over the rows of the group of row i whose label lies in
\* max(0, i - back) .. i
WindowSum(df, i, p, back) ==
    RSum(Tup([k \in 1..Len(df) |->
        IF (k - 1) \in WindowLabels(df, i, back)
        THEN NumOrZero(ProjectCU(df, k - 1, p)) ELSE Zero]))

\* faulty variant: the window reaches one row further back
TrailingSum_five_back(df, i, p) == WindowSum(df, i, p, TrailingRows + 1)

\* df.loc[max(0, i - 4):i, 'CU'].sum(): a slice by label, both ends included
TrailingSum(df, i, p) == WindowSum(df, i, p, TrailingRows)

\* faulty variant: units are sold in every row
CUsSold_every_year(df, i, p) == TrailingSum(df, i, p)

CUsSold(df, i, p) ==
    IF IsSaleYear(df[i + 1].Year, p) THEN TrailingSum(df, i, p) ELSE Zero

CreditPrice(year, p) ==
    RMul(p.price_per_ert_initial,
         RPow(RAdd(One, p.credit_price_increase), year - p.year_start))

\* faulty variant: the verification mask also covers the start year
ValidationAndVerification_from_start(year, p) ==
    LET validated == IF year = p.year_start THEN p.validation_cost ELSE Zero
    IN  IF year >= p.year_start /\ (year - p.year_start) % CheckpointPeriod = 0
        THEN p.verification_cost
        ELSE validated

ValidationAndVerification(year, p) ==
    LET validated == IF year = p.year_start THEN p.validation_cost ELSE Zero
    IN  IF year > p.year_start /\ (year - p.year_start) % CheckpointPeriod = 0
        THEN p.verification_cost
        ELSE validated

\* faulty variant: the survey amount without the inflation factor
SurveyCost_without_inflation(year, p) ==
    IF (year - p.year_start) % CheckpointPeriod = 4
    THEN RMul(p.num_plots, p.cost_per_cfi_plot)
    ELSE Zero

SurveyCost(year, p) ==
    IF (year - p.year_start) % CheckpointPeriod = 4
    THEN RMul(RMul(p.num_plots, p.cost_per_cfi_plot), RAdd(One, p.anticipated_inflation))
    ELSE Zero

ProformaRow(df, i, p) ==
    LET year == df[i + 1].Year
        sold == CUsSold(df, i, p)
        price == CreditPrice(year, p)
        revenue == RMul(sold, price)
        vv == ValidationAndVerification(year, p)
        survey == SurveyCost(year, p)
        issuance == RMul(sold, p.issuance_fee_per_ert)
        costs == RAdd(RAdd(RAdd(RAdd(RAdd(vv, survey), p.registry_fees), issuance),
                           p.planting_cost), p.seedling_cost)
    IN  [Year |-> year, CU_ac |-> df[i + 1].CU, Project_acres |-> p.net_acres,
         CU |-> ProjectCU(df, i, p), CUs_Sold |-> sold, CU_Credit_Price |-> price,
         Total_Revenue |-> revenue, Validation_and_Verification |-> vv,
         Survey_Cost |-> survey, Registry_Fees |-> p.registry_fees,
         Issuance_Fees |-> issuance, Planting_Cost |-> p.planting_cost,
         Seedling_Cost |-> p.seedling_cost, Total_Costs |-> costs,
         Net_Revenue |-> RSub(revenue, costs), Protocol |-> df[i + 1].Protocol]

OfProtocol(rows, protocol) == SelectSeq(rows, LAMBDA r : r.Protocol = protocol)

\* for protocol, subdf in df.groupby("Protocol"): groups in key order, the
\* rows of a group in table order
RECURSIVE GroupRows(_, _)
GroupRows(rows, k) ==
    IF k > Len(ProtocolOrder) THEN <<>>
    ELSE OfProtocol(rows, ProtocolOrder[k]) \o GroupRows(rows, k + 1)

compute_proforma(df_ert_ac, p) ==
    IF Len(df_ert_ac) = 0
    THEN [status |-> "KeyError", rows |-> <<>>]    \* no column "Protocol"
    ELSE [status |-> "ok",
          rows |-> GroupRows(Tup([k \in 1..Len(df_ert_ac) |->
                                    ProformaRow(df_ert_ac, k - 1, p)]), 1)]

\* faulty variant: the first cashflow is discounted by one period
Npv_from_period_one(rate, values) ==
    RSum(Tup([t \in 1..Len(values) |->
        RDiv(values[t], RPow(RAdd(One, rate), t))]))

\* npf.npv(rate, values): the t-th value, t = 0, 1, ..., over (1 + rate)^t
Npv(rate, values) ==
    RSum(Tup([t \in 1..Len(values) |->
        RDiv(values[t], RPow(RAdd(One, rate), t - 1))]))

NetRevenues(subdf) == Tup([i \in 1..Len(subdf) |-> subdf[i].Net_Revenue])

\* faulty variant: the division by net_acres without its guard
Summary_unguarded(subdf, params, protocol) ==
    LET sorted == SortByYear(subdf)
        cashflows == SelectSeq(sorted, LAMBDA r : r.Year <= params.year_start + NpvYears)
        npv_yr == Npv(RAdd(params.anticipated_inflation, params.discount_rate),
                      NetRevenues(cashflows))
    IN  [Protocol |-> protocol,
         total_net |-> RSum(Tup([i \in 1..Len(sorted) |-> NumOrZero(sorted[i].Net_Revenue)])),
         npv_yr20 |-> npv_yr,
         npv_per_acre |-> RDiv(npv_yr, params.net_acres)]

Summary(subdf, params, protocol) ==
    LET sorted == SortByYear(subdf)
        cashflows == SelectSeq(sorted, LAMBDA r : r.Year <= params.year_start + NpvYears)
        npv_yr == Npv(RAdd(params.anticipated_inflation, params.discount_rate),
                      NetRevenues(cashflows))
    IN  [Protocol |-> protocol,
         total_net |-> RSum(Tup([i \in 1..Len(sorted) |-> NumOrZero(sorted[i].Net_Revenue)])),
         npv_yr20 |-> npv_yr,
         npv_per_acre |-> IF params.net_acres # Zero
                          THEN RDiv(npv_yr, params.net_acres) ELSE None]

RECURSIVE SummaryRows(_, _, _)
SummaryRows(rows, params, k) ==
    IF k > Len(ProtocolOrder) THEN <<>>
    ELSE (IF OfProtocol(rows, ProtocolOrder[k]) = <<>> THEN <<>>
          ELSE <<Summary(OfProtocol(rows, ProtocolOrder[k]), params, ProtocolOrder[k])>>)
         \o SummaryRows(rows, params, k + 1)

compute_summaries(df_pf_rows, params) ==
    [status |-> "ok", rows |-> SummaryRows(df_pf_rows, params, 1)]


(***************************************************************************)
(* Carbon Estimator: compute_carbon_scores.                                *)
(* A coefficients table is the sequence of its entries in key order of the *)
(* dict: [key |-> year, coef |-> the seven coefficients of the year].      *)
(***************************************************************************)
ScoreDecimals == 4      \* round(c, 4)
TenTo4 == 10 ^ ScoreDecimals

\* faulty variant: the keys in the order of the dict
SortedKeys_as_stored(coefficients) == coefficients

\* sorted(coefficients.keys(), key=int)
SortedKeys(coefficients) ==
    LET byYear == SortByYear(Tup([i \in 1..Len(coefficients) |->
                      [Year |-> coefficients[i].key, at |-> i]]))
    IN  Tup([i \in 1..Len(byYear) |-> coefficients[byYear[i].at]])

\* the linear model of one year
CScore(coef, inputs) ==
    LET tpa_total == RAdd(RAdd(inputs.tpa_df, inputs.tpa_rc), inputs.tpa_wh)
    IN  RSum(<<RMul(coef.TPA_DF, inputs.tpa_df),
               RMul(coef.TPA_RC, inputs.tpa_rc),
               RMul(coef.TPA_WH, inputs.tpa_wh),
               RMul(coef.TPA_total, tpa_total),
               RMul(coef.Survival, inputs.survival),
               RMul(coef.SI, inputs.si),
               coef.Intercept>>)

\* the lists years, c_scores and ann_c_scores after the first n keys
RECURSIVE ScoreLoop(_, _, _)
ScoreLoop(keys, inputs, n) ==
    IF n = 0 THEN <<>>
    ELSE LET done == ScoreLoop(keys, inputs, n - 1)
             c_score == CScore(keys[n].coef, inputs)
             ann == IF Len(done) > 0 THEN RSub(c_score, done[Len(done)].C_Score)
                    ELSE c_score
         IN  Append(done, [Year |-> keys[n].key, C_Score |-> c_score,
                           Annual_C_Score |-> ann])

\* round(x, 4): the nearest multiple of 1/10000, a tie to the even one
Round4(x) ==
    LET whole == x[1] \div x[2]
        rest == x[1] - whole * x[2]
        units == (rest * TenTo4) \div x[2]
        left == rest * TenTo4 - units * x[2]
        up == 2 * left > x[2] \/ (2 * left = x[2] /\ units % 2 = 1)
    IN  Rat(whole * TenTo4 + units + (IF up THEN 1 ELSE 0), TenTo4)

RoundedRow(r) ==
    [Year |-> r.Year, C_Score |-> Round4(r.C_Score),
     Annual_C_Score |-> Round4(r.Annual_C_Score)]

ScoresUnrounded(coefficients, inputs) ==
    ScoreLoop(SortedKeys(coefficients), inputs, Len(coefficients))

compute_carbon_scores(coefficients, inputs) ==
    LET rows == ScoresUnrounded(coefficients, inputs)
    IN  Tup([i \in 1..Len(rows) |-> RoundedRow(rows[i])])

\* pages/1_planting.py: the lists years, c_scores and ann_c_scores after the
\* first n keys of the coefficients file, in the order of the file
RECURSIVE PageScoreLoop(_, _, _)
PageScoreLoop(keys, inputs, n) ==
    IF n = 0 THEN <<>>
    ELSE LET done == PageScoreLoop(keys, inputs, n - 1)
             c_score == CScore(keys[n].coef, inputs)
             ann_c_score == IF Len(done) > 1 THEN RSub(c_score, done[Len(done)].C_Score)
                            ELSE c_score
         IN  Append(done, [Year |-> keys[n].key, C_Score |-> c_score,
                           Annual_C_Score |-> ann_c_score])

(***************************************************************************)
(* Session state of the planting page: _backup_keys and _restore_backup.   *)
(* A dict is a function from its keys; a slider value is                   *)
(* [kind |-> "int" or "str", v |-> number], "str" a string of digits.      *)
(***************************************************************************)
EmptyDict == [x \in {} |-> x]

BackupName == "_planting_backup"

Has(dict, k) == k \in DOMAIN dict

SeqRange(keys) == {keys[i] : i \in 1..Len(keys)}

\* dict[k] = v
Put(dict, k, v) == [x \in DOMAIN dict \cup {k} |-> IF x = k THEN v ELSE dict[x]]

\* dict.pop(k, None)
Pop(dict, k) == [x \in DOMAIN dict \ {k} |-> dict[x]]

\* faulty variant: the value is stored as it is
BackupValue_uncast(val) == val

\* int(val) if isinstance(val, (int, float, str)) and str(val).isdigit() else val
BackupValue(val) == IF val.kind = "str" THEN [kind |-> "int", v |-> val.v] ELSE val

\* the dict `backup` after the first n keys
RECURSIVE BackupLoop(_, _, _)
BackupLoop(ss, keys, n) ==
    IF n = 0 THEN EmptyDict
    ELSE LET backup == BackupLoop(ss, keys, n - 1)
         IN  IF Has(ss, keys[n]) THEN Put(backup, keys[n], BackupValue(ss[keys[n]]))
             ELSE backup

backup_keys(ss, keys) == Put(ss, BackupName, BackupLoop(ss, keys, Len(keys)))

\* faulty variant: the backup overwrites the keys that are present
RECURSIVE RestoreLoop_overwriting(_, _, _, _)
RestoreLoop_overwriting(ss, backup, keys, n) ==
    IF n = 0 THEN ss
    ELSE LET done == RestoreLoop_overwriting(ss, backup, keys, n - 1)
         IN  IF Has(backup, keys[n])
             THEN Put(done, keys[n], backup[keys[n]])
             ELSE done

\* session state after the loop of _restore_backup over the first n keys
RECURSIVE RestoreLoop(_, _, _, _)
RestoreLoop(ss, backup, keys, n) ==
    IF n = 0 THEN ss
    ELSE LET done == RestoreLoop(ss, backup, keys, n - 1)
         IN  IF ~Has(done, keys[n]) /\ Has(backup, keys[n])
             THEN Put(done, keys[n], backup[keys[n]])
             ELSE done

restore_backup(ss, keys) ==
    LET backup == IF Has(ss, BackupName) THEN ss[BackupName] ELSE EmptyDict
    IN  IF backup = EmptyDict THEN ss
        ELSE RestoreLoop(ss, backup, keys, Len(keys))

(***************************************************************************)
(* Session state of the planting page: _init_planting_state.               *)
(***************************************************************************)
DefaultSurvival == 70      \* st.session_state.get("survival", 70)
DefaultSI == 120           \* st.session_state.get("si", 120)
DefaultNetAcres == 10000   \* st.session_state.get("net_acres", 10000)
DefaultVariant == "PN"     \* st.session_state.get("selected_variant", "PN")

IntValue(n) == [kind |-> "int", v |-> n]

\* the names that start with "tpa_"
SpeciesNames == {"tpa_df"}

\* dict.get(k, default)
Get(dict, k, default) == IF Has(dict, k) THEN dict[k] ELSE default

\* _planting_keys()
planting_keys(ss) ==
    {k \in DOMAIN ss : k \in SpeciesNames \/ k \in {"survival", "si", "net_acres"}}

\* _species_keys(preset)
species_keys(preset) == {k \in DOMAIN preset : k \in SpeciesNames}

\* faulty variant: the presets are seeded on every run
init_planting_state_every_run(ss, variant, preset) ==
    LET popped == [k \in DOMAIN ss \ planting_keys(ss) |-> ss[k]]
        s1 == Put(popped, "survival", Get(preset, "survival", IntValue(DefaultSurvival)))
        s2 == Put(s1, "si", Get(preset, "si", IntValue(DefaultSI)))
        s3 == Put(s2, "net_acres", IntValue(DefaultNetAcres))
        s4 == [k \in DOMAIN s3 \cup species_keys(preset) |->
                   IF Has(s3, k) THEN s3[k] ELSE preset[k]]
    IN  Put(s4, "_last_variant", variant)

\* _init_planting_state(variant, preset)
init_planting_state(ss, variant, preset) ==
    IF Has(ss, "_last_variant") /\ ss["_last_variant"] = variant THEN ss
    ELSE LET popped == [k \in DOMAIN ss \ planting_keys(ss) |-> ss[k]]
             s1 == Put(popped, "survival",
                       Get(preset, "survival",
                           Get(popped, "survival", IntValue(DefaultSurvival))))
             s2 == Put(s1, "si",
                       Get(preset, "si", Get(s1, "si", IntValue(DefaultSI))))
             s3 == Put(s2, "net_acres", Get(s2, "net_acres", IntValue(DefaultNetAcres)))
             \* setdefault(spk, int(preset.get(spk, 0))) for every species key
             s4 == [k \in DOMAIN s3 \cup species_keys(preset) |->
                        IF Has(s3, k) THEN s3[k] ELSE preset[k]]
         IN  Put(s4, "_last_variant", variant)

(***************************************************************************)
(* The project page: run_chart, carbon_units and credits_results.  A data  *)
(* frame in session state is known by the run that computed it and the     *)
(* protocols it holds CU rows for.                                         *)
(***************************************************************************)
CarbonUnitsBackup == "_carbon_units_backup"

ListValue(list) == [kind |-> "list", v |-> list]
FrameValue(run, protocols) == [kind |-> "frame", v |-> [run |-> run, protocols |-> protocols]]
NoFrameValue == [kind |-> "none", v |-> [run |-> 0, protocols |-> <<>>]]

\* _carbon_units_keys()
carbon_units_keys == <<"carbon_units_protocols", "carbon_units_inputs">>

\* _backup_keys(keys, backup_name)
backup_keys_named(ss, keys, backup_name) ==
    Put(ss, backup_name, BackupLoop(ss, keys, Len(keys)))

\* _restore_backup(keys, backup_name)
restore_backup_named(ss, keys, backup_name) ==
    LET backup == IF Has(ss, backup_name) THEN ss[backup_name] ELSE EmptyDict
    IN  IF backup = EmptyDict THEN ss
        ELSE RestoreLoop(ss, backup, keys, Len(keys))

\* _init_carbon_units_state()
init_carbon_units_state(ss) ==
    LET s1 == IF Has(ss, "carbon_units_inputs") THEN ss
              ELSE Put(ss, "carbon_units_inputs", ListValue(<<ACR>>))
    IN  IF Has(s1, "carbon_units_protocols") THEN s1
        ELSE Put(s1, "carbon_units_protocols", s1["carbon_units_inputs"])

\* carbon_units(): st.session_state.merged_df = final_df, unless no protocol
\* is selected
carbon_units(ss, run) ==
    LET protocols == Get(ss, "carbon_units_inputs", ListValue(<<ACR>>)).v
    IN  IF Len(protocols) > 0 THEN Put(ss, "merged_df", FrameValue(run, protocols))
        ELSE ss

\* credits_results(params): the CU data its proforma is computed from, none
\* when it stops for want of merged_df
credits_results(ss) == Get(ss, "merged_df", NoFrameValue)

\* rows 2 and 3 of run_chart, after row 1 has stored the carbon_df of this run
run_chart_rows(ss, run) ==
    LET s0 == Put(ss, "carbon_df", FrameValue(run, <<>>))
        s1 == restore_backup_named(s0, carbon_units_keys, CarbonUnitsBackup)
        s2 == init_carbon_units_state(s1)
        s3 == Put(s2, "carbon_units_inputs", s2["carbon_units_protocols"])
        s4 == backup_keys_named(s3, carbon_units_keys, CarbonUnitsBackup)
    IN  carbon_units(s4, run)

(***************************************************************************)
(* Front-end configuration: get_api_base_url.  A URL string is the record  *)
(* of its scheme, the host as written, and its port; the string            *)
(* "localhost:8001" has no "//" and thus no host for urlparse.             *)
(***************************************************************************)
Url(scheme, host, port) == [scheme |-> scheme, host |-> host, port |-> port]

Unset == Url("None", "", "")      \* no such secret, no such variable
EmptyUrl == Url("", "", "")       \* the empty string

\* api_url = "http://127.0.0.1:8001"
DefaultApiUrl == Url("http", "127.0.0.1", "8001")

NoHost == "None"

\* str.lower() of a host name
Lower(host) == IF host = "LOCALHOST" THEN "localhost" ELSE host

\* urlparse(api_url).hostname: the host of the netloc in lower case, None for
\* a string without "//"
Hostname(api_url) ==
    IF api_url.scheme \in {"http", "https"} /\ api_url.host # ""
    THEN Lower(api_url.host) ELSE NoHost

LocalHosts == {"localhost", "127.0.0.1"}

\* secrets first, then the environment variable, then the local default
ResolvedUrl(secret, environ) ==
    LET first == IF secret \in {Unset, EmptyUrl} THEN environ ELSE secret
    IN  IF first \in {Unset, EmptyUrl} THEN DefaultApiUrl ELSE first

\* faulty variant: the host is compared with its port
ProductionCheck_on_netloc(api_url, env) ==
    IF env = "production" /\ api_url.host \in LocalHosts /\ api_url.port = ""
    THEN [status |-> "RuntimeError", url |-> Unset]
    ELSE [status |-> "ok", url |-> api_url]

\* the rule enforced in production only
ProductionCheck(api_url, env) ==
    IF env = "production" /\ Hostname(api_url) \in LocalHosts
    THEN [status |-> "RuntimeError", url |-> Unset]
    ELSE [status |-> "ok", url |-> api_url]

get_api_base_url(secret, environ, env) == ProductionCheck(ResolvedUrl(secret, environ), env)

(***************************************************************************)
(* Requests of the model.                                                  *)
(***************************************************************************)
YearZero == 2024    \* the project start year of the service's carbon rows

\* C_Score values: multiples of 10/3.667, so that Onsite_Total_CO2 is 0, 10, 20, ...
ScoreUnit == <<10000, 3667>>
ScoreLevels == 0..2
YearSteps == {1, 2}

CarbonRows(n, step, level) ==
    Tup([i \in 1..n |-> [Year |-> YearZero + step * (i - 1),
                         C_Score |-> RMul(RInt(level[i]), ScoreUnit)]])

Reversed(s) == Tup([i \in 1..Len(s) |-> s[Len(s) + 1 - i]])

AscendingTables ==
    UNION {{CarbonRows(n, step, level) : level \in [1..n -> ScoreLevels]} :
           n \in SplineOrder..MaxPoints, step \in YearSteps}

\* a few tables whose rows are not in year order, and the empty table
OtherTables ==
    {Reversed(CarbonRows(n, 2, level)) : n \in {MaxPoints}, level \in [1..MaxPoints -> {0, 2}]}
    \cup {<<>>}

\* the carbon score growing by one unit from row to row
FewTables == {CarbonRows(MaxPoints, step, [i \in 1..MaxPoints |-> i - 1]) : step \in YearSteps}

ProtocolLists ==
    {<<>>, <<"GS">>, <<ACR>>, <<"ISO">>, <<"XYZ">>, <<"GS", ACR>>}

\* caller-supplied rule tables: one with its own ACR/CAR/VERRA entry, one without
OverrideWithACR ==
    (ACR :> Rule(<<1, 2>>, One, TRUE)) @@ ("GS" :> Rule(Zero, <<2, 1>>, FALSE))
OverrideWithoutACR ==
    ("GS" :> Rule(Zero, One, FALSE)) @@ ("ISO" :> Rule(<<1, 10>>, One, TRUE))
Overrides == {OverrideWithACR, OverrideWithoutACR}

UnitsRequest(rows, protocols, protocol_rules) ==
    [carbon_rows |-> rows, protocols |-> protocols, protocol_rules |-> protocol_rules]

EndpointRequests ==
    {UnitsRequest(rows, protocols, NoRules) :
        rows \in AscendingTables \cup OtherTables \cup FewTables, protocols \in ProtocolLists}
    \cup {UnitsRequest(rows, protocols, o) :
        rows \in FewTables, protocols \in {<<"GS">>, <<"XYZ">>}, o \in Overrides}

DirectCalls ==
    {UnitsRequest(rows, <<ACR>>, OverrideWithACR) : rows \in AscendingTables}
    \cup {UnitsRequest(rows, protocols, o) :
        rows \in FewTables, protocols \in {<<"GS">>, <<"XYZ">>, <<"ISO", "GS">>}, o \in Overrides}

\* financial parameters of a ProformaRequest
CostsNone ==
    [num_plots |-> Zero, cost_per_cfi_plot |-> Zero, registry_fees |-> Zero,
     validation_cost |-> Zero, verification_cost |-> Zero,
     issuance_fee_per_ert |-> <<1, 4>>, anticipated_inflation |-> Zero,
     discount_rate |-> <<1, 2>>, planting_cost |-> Zero, seedling_cost |-> Zero]
CostsTypical ==
    [num_plots |-> RInt(4), cost_per_cfi_plot |-> RInt(15), registry_fees |-> RInt(5),
     validation_cost |-> RInt(45), verification_cost |-> RInt(25),
     issuance_fee_per_ert |-> <<1, 4>>, anticipated_inflation |-> <<1, 2>>,
     discount_rate |-> <<1, 2>>, planting_cost |-> RInt(7), seedling_cost |-> RInt(3)]
CostPresets == {CostsNone, CostsTypical}

AcreSet == {Zero, One, RInt(1000)}
GrowthSet == {Zero, <<1, 2>>}

Params(acres, growth, costs) ==
    costs @@ [net_acres |-> acres, price_per_ert_initial |-> RInt(10),
              credit_price_increase |-> growth, year_start |-> YearZero]

ParamSet == {Params(a, g, c) : a \in AcreSet, g \in GrowthSet, c \in CostPresets}
PipelineParams == {Params(RInt(1000), Zero, CostsTypical)}

\* per-acre CU series: one row per consecutive year
CUSet == {1, 2}
FirstYears == {YearZero - 1, YearZero, YearZero + 1}

SeriesTable(first, cu, protocol) ==
    Tup([i \in 1..Len(cu) |-> [Year |-> first + i - 1, CU |-> RInt(cu[i]), Protocol |-> protocol]])

SingleTables ==
    UNION {{SeriesTable(first, Tup(cu), "GS") : cu \in [1..n -> CUSet]} :
           first \in FirstYears, n \in 1..MaxRows}

\* two protocols, one block of rows after the other as the converter lays them out
BlockTables ==
    {SeriesTable(first, Tup([i \in 1..MaxRows |-> 1]), "ISO")
       \o SeriesTable(first, Tup([i \in 1..MaxRows |-> IF i % 2 = 0 THEN 2 ELSE 1]), ACR) :
     first \in FirstYears}

ProformaTables == SingleTables \cup BlockTables \cup {<<>>}

\* CU patterns of the further tables: 1 in every year, or 1 and 2 in turn
CUPatterns(n) == {Tup([i \in 1..n |-> 1]), Tup([i \in 1..n |-> IF i % 2 = 0 THEN 2 ELSE 1])}

\* a series with a row every second year only
GapTables ==
    {Tup([i \in 1..ShortRows |->
            [Year |-> first + 2 * (i - 1), CU |-> RInt(cu[i]), Protocol |-> "GS"]]) :
     first \in FirstYears, cu \in CUPatterns(ShortRows)}

\* the rows of two protocols in turn, year by year
InterleavedTables ==
    {Tup([k \in 1..(2 * MaxRows) |->
            [Year |-> first + (k - 1) \div 2,
             CU |-> RInt(cu[(k + 1) \div 2]),
             Protocol |-> IF k % 2 = 1 THEN "GS" ELSE "ISO"]]) :
     first \in FirstYears, cu \in CUPatterns(MaxRows)}

\* a series of consecutive years with the latest year in the first row
DescendingTables ==
    {Tup([i \in 1..MaxRows |->
            [Year |-> first + MaxRows - i, CU |-> RInt(cu[i]), Protocol |-> "GS"]]) :
     first \in FirstYears, cu \in CUPatterns(MaxRows)}

\* a series that runs past year_start + npv_years
LateTables ==
    {SeriesTable(YearZero + NpvYears - 1, cu, "GS") : cu \in CUPatterns(ShortRows)}

\* parameters with a constant credit price
FlatPriceParams == {p \in ParamSet : p.credit_price_increase = Zero}

\* coefficients of one year of the carbon model
Coef(tpa_df, tpa_rc, tpa_wh, tpa_total, survival, si, intercept) ==
    [TPA_DF |-> tpa_df, TPA_RC |-> tpa_rc, TPA_WH |-> tpa_wh, TPA_total |-> tpa_total,
     Survival |-> survival, SI |-> si, Intercept |-> intercept]

CoefGrowth == Coef(<<1, 50>>, <<1, 100>>, Zero, <<1, 200>>, <<1, 5>>, <<1, 100>>, One)
CoefFine == Coef(Zero, Zero, Zero, <<1, 30000>>, Zero, Zero, Zero)
CoefDecline == Coef(Zero, Zero, Zero, Zero, <<-1, 10>>, Zero, RInt(20))
CoefPresets == {CoefGrowth, CoefFine, CoefDecline}

\* the k-th year of a coefficients table
KeyYear(k) == YearZero + 5 * k

Perms(n) == {p \in [1..n -> 1..n] : \A i \in 1..n, j \in 1..n : p[i] = p[j] => i = j}

\* coefficients tables of up to MaxKeys years, their keys in any order
CoefficientTables ==
    UNION {{Tup([i \in 1..n |-> [key |-> KeyYear(order[i]), coef |-> coef[order[i]]]]) :
              coef \in [1..n -> CoefPresets], order \in Perms(n)} :
           n \in 0..MaxKeys}

\* planting scenarios: trees per acre, survival in percent, site index
Scenarios ==
    {[tpa_df |-> RInt(d), tpa_rc |-> RInt(50), tpa_wh |-> Zero,
      survival |-> RInt(s), si |-> RInt(100)] : d \in {0, 100}, s \in {50, 100}}

\* the sliders of the planting page and the values a slider can hold
WidgetKeys == {"survival", "tpa_df"}
SliderValues == {[kind |-> k, v |-> n] : k \in {"int", "str"}, n \in 1..MaxValue}

\* the key lists handed to _backup_keys and _restore_backup
KeyLists ==
    {<<>>, <<"survival">>, <<"tpa_df">>, <<"survival", "tpa_df">>,
     <<"tpa_df", "survival", "tpa_df">>}

\* the FVS variants of the map and their presets
Variants == {"PN", "WC"}
Presets ==
    [PN |-> [survival |-> IntValue(1), si |-> IntValue(2), tpa_df |-> IntValue(2)],
     WC |-> [tpa_df |-> IntValue(1)]]

\* values of the secret and of the variable CARBON_API_BASE_URL, and of ENV
ConfiguredUrls ==
    {Unset, EmptyUrl, Url("http", "127.0.0.1", "8001"), Url("http", "localhost", "8001"),
     Url("http", "LOCALHOST", ""), Url("https", "api.example.org", ""),
     Url("", "localhost", "8001")}
EnvNames == {"local", "production", "staging"}

\* the selections of the multiselect "Select Protocol(s)"
Selections == {<<>>, <<ACR>>, <<"GS">>, <<"ISO">>, <<ACR, "GS">>, <<ACR, "GS", "ISO">>}

NoBackupCall == [intact |-> FALSE, keys |-> <<>>, raw |-> EmptyDict, removed |-> {}]

NoRequest == [via |-> "none"]
NoFrame == [status |-> "none", rows |-> <<>>]

(***************************************************************************)
(* The handlers.                                                           *)
(***************************************************************************)
Init ==
    /\ units_req = NoRequest
    /\ merged = [status |-> "none", frames |-> <<>>]
    /\ df_units = NoFrame
    /\ pf_req = NoRequest
    /\ df_pf = NoFrame
    /\ summaries_df = NoFrame
    /\ http_status = "none"
    /\ carbon_req = NoRequest
    /\ c_scores = <<>>
    /\ carbon_df = <<>>
    /\ session_state = EmptyDict
    /\ session_before = EmptyDict
    /\ last_call = [op |-> "none", keys |-> <<>>]
    /\ at_backup = NoBackupCall
    /\ api_config = NoRequest
    /\ api_base_url = [status |-> "none", url |-> Unset]
    /\ chart = [run |-> 0, proforma_of |-> NoFrameValue]

Idle == units_req = NoRequest /\ pf_req = NoRequest

\* POST /carbon/units: ruleset = req.protocol_rules or protocol_rules
carbon_units_endpoint ==
    /\ Idle
    /\ \E req \in EndpointRequests :
         LET ruleset == IF req.protocol_rules # NoRules
                        THEN [table |-> req.protocol_rules, as_model |-> TRUE]
                        ELSE [table |-> DefaultRules, as_model |-> FALSE]
         IN  /\ units_req' = [via |-> "endpoint", carbon_rows |-> req.carbon_rows,
                              protocols |-> req.protocols, ruleset |-> ruleset]
             /\ merged' = ProtocolLoop(req.carbon_rows, req.protocols, ruleset)
             /\ df_units' = ConcatFrames(merged')
             /\ http_status' = IF df_units'.status = "ok" THEN "200" ELSE "500"
    /\ UNCHANGED <<pf_req, df_pf, summaries_df, carbon_vars, session_vars, config_vars, chart>>

\* compute_carbon_units called with a plain dict of rules
carbon_units_call ==
    /\ Idle
    /\ \E req \in DirectCalls :
         LET ruleset == [table |-> req.protocol_rules, as_model |-> FALSE]
         IN  /\ units_req' = [via |-> "call", carbon_rows |-> req.carbon_rows,
                              protocols |-> req.protocols, ruleset |-> ruleset]
             /\ merged' = ProtocolLoop(req.carbon_rows, req.protocols, ruleset)
             /\ df_units' = ConcatFrames(merged')
    /\ UNCHANGED <<pf_req, df_pf, summaries_df, http_status, carbon_vars, session_vars, config_vars, chart>>

\* the body of run_proforma; the response model wants a float in every
\* field of a ProformaSummary
Proforma(df_ert_ac, params, via) ==
    /\ pf_req' = [via |-> via, df_ert_ac |-> df_ert_ac, params |-> params]
    /\ df_pf' = compute_proforma(df_ert_ac, params)
    /\ summaries_df' = IF df_pf'.status = "ok" THEN compute_summaries(df_pf'.rows, params)
                       ELSE NoFrame
    /\ http_status' =
          IF /\ summaries_df'.status = "ok"
             /\ \A k \in 1..Len(summaries_df'.rows) : summaries_df'.rows[k].npv_per_acre # None
          THEN "200" ELSE "500"

\* POST /proforma/compute with rows the client supplies
run_proforma ==
    /\ Idle
    /\ \/ \E df_ert_ac \in ProformaTables \cup GapTables \cup InterleavedTables
                             \cup DescendingTables,
              params \in ParamSet :
              Proforma(df_ert_ac, params, "client")
       \/ \E df_ert_ac \in LateTables, params \in FlatPriceParams :
              Proforma(df_ert_ac, params, "client")
    /\ UNCHANGED <<units_req, merged, df_units, carbon_vars, session_vars, config_vars, chart>>

\* POST /proforma/compute with the rows POST /carbon/units returned
run_proforma_on_units ==
    /\ units_req # NoRequest
    /\ units_req.via = "endpoint"
    /\ http_status = "200"
    /\ pf_req = NoRequest
    /\ \E params \in PipelineParams : Proforma(df_units.rows, params, "units")
    /\ UNCHANGED <<units_req, merged, df_units, carbon_vars, session_vars, config_vars, chart>>

\* faulty variant: the year-0 row after the modelled rows
WithYearZero_appended(results) ==
    results \o <<[Year |-> YearZero, C_Score |-> Zero, Annual_C_Score |-> Zero]>>

\* results.insert(0, {"Year": 2024, "C_Score": 0.0, "Annual_C_Score": 0.0})
WithYearZero(results) ==
    <<[Year |-> YearZero, C_Score |-> Zero, Annual_C_Score |-> Zero]>> \o results

\* POST /carbon/calculate
calculate_carbon ==
    /\ carbon_req = NoRequest
    /\ \E coefficients \in CoefficientTables, inputs \in Scenarios :
         /\ carbon_req' = [via |-> "endpoint", coefficients |-> coefficients,
                           inputs |-> inputs]
         /\ c_scores' = ScoresUnrounded(coefficients, inputs)
         /\ carbon_df' = WithYearZero(Tup([i \in 1..Len(c_scores') |->
                                             RoundedRow(c_scores'[i])]))
    /\ http_status' = "200"
    /\ UNCHANGED <<units_req, merged, df_units, pf_req, df_pf, summaries_df, session_vars, config_vars, chart>>

\* a run of the Planting Scenario page: st.session_state.carbon_df = df
planting_page_run ==
    /\ carbon_req = NoRequest
    /\ \E coefficients \in CoefficientTables, inputs \in Scenarios :
         /\ carbon_req' = [via |-> "page", coefficients |-> coefficients,
                           inputs |-> inputs]
         /\ c_scores' = PageScoreLoop(coefficients, inputs, Len(coefficients))
         /\ carbon_df' = c_scores'
    /\ UNCHANGED <<units_req, merged, df_units, pf_req, df_pf, summaries_df, http_status,
                   session_vars, config_vars, chart>>

\* a run of run_chart on the session state ss of the widgets
ChartStep(ss, why) ==
    /\ chart.run < MaxRuns
    /\ session_state' = run_chart_rows(ss, chart.run + 1)
    /\ chart' = [run |-> chart.run + 1, proforma_of |-> credits_results(session_state')]
    /\ last_call' = [op |-> why, keys |-> carbon_units_keys]
    /\ session_before' = session_state
    /\ at_backup' = NoBackupCall
    /\ UNCHANGED <<units_req, merged, df_units, pf_req, df_pf, summaries_df, http_status,
                   carbon_vars, config_vars>>

\* a run of run_chart after the user changed the selection of protocols
run_chart_on_selection ==
    \E protocols \in Selections :
        ChartStep(Put(session_state, "carbon_units_protocols", ListValue(protocols)),
                  "run_chart: selection")

\* a run of run_chart for any other reason, after the widgets of the section
\* were or were not dropped
run_chart_again ==
    \/ ChartStep(session_state, "run_chart: rerun")
    \/ /\ Has(session_state, "carbon_units_protocols")
       /\ ChartStep(Pop(session_state, "carbon_units_protocols"), "run_chart: remount")

NextChart ==
    \/ run_chart_on_selection
    \/ run_chart_again

SpecChart == Init /\ [][NextChart]_vars

\* the front end resolves the base URL of the model service
api_base_url_call ==
    /\ api_config = NoRequest
    /\ \E secret \in ConfiguredUrls, environ \in ConfiguredUrls, env \in EnvNames :
         /\ api_config' = [via |-> "config", secret |-> secret, environ |-> environ,
                           ENV |-> env]
         /\ api_base_url' = get_api_base_url(secret, environ, env)
    /\ UNCHANGED <<units_req, merged, df_units, pf_req, df_pf, summaries_df, http_status,
                   carbon_vars, session_vars, chart>>

SpecConfig == Init /\ [][api_base_url_call]_vars

\* the Planting Scenario page on its own
SpecPlantingPage == Init /\ [][planting_page_run]_vars

Next ==
    \/ carbon_units_endpoint
    \/ carbon_units_call
    \/ run_proforma
    \/ run_proforma_on_units

Spec == Init /\ [][Next]_vars

\* the carbon estimator on its own
SpecCarbon == Init /\ [][calculate_carbon]_vars

NotSession ==
    UNCHANGED <<units_req, merged, df_units, pf_req, df_pf, summaries_df, http_status,
                carbon_vars, config_vars, chart>>

\* the user moves a slider
widget_set ==
    /\ \E k \in WidgetKeys, v \in SliderValues :
         /\ session_state' = Put(session_state, k, v)
         /\ last_call' = [op |-> "set", keys |-> <<k>>]
    /\ session_before' = session_state
    /\ at_backup' = NoBackupCall
    /\ NotSession

\* Streamlit drops the state of a widget that is not rendered
widget_dropped ==
    /\ \E k \in (WidgetKeys \cup {"net_acres"}) \cap DOMAIN session_state :
         /\ session_state' = Pop(session_state, k)
         /\ last_call' = [op |-> "drop", keys |-> <<k>>]
         /\ at_backup' = IF at_backup.intact /\ k \in SeqRange(at_backup.keys)
                         THEN [at_backup EXCEPT !.removed = @ \cup {k}]
                         ELSE NoBackupCall
    /\ session_before' = session_state
    /\ NotSession

\* _backup_keys(keys)
backup_keys_call ==
    /\ \E keys \in KeyLists :
         /\ session_state' = backup_keys(session_state, keys)
         /\ last_call' = [op |-> "backup", keys |-> keys]
         /\ at_backup' = [intact |-> TRUE, keys |-> keys,
                          raw |-> [k \in SeqRange(keys) \cap DOMAIN session_state |->
                                       session_state[k]],
                          removed |-> {}]
    /\ session_before' = session_state
    /\ NotSession

\* _restore_backup(keys)
restore_backup_call ==
    /\ \E keys \in KeyLists :
         /\ session_state' = restore_backup(session_state, keys)
         /\ last_call' = [op |-> "restore", keys |-> keys]
         /\ at_backup' = IF at_backup.intact /\ keys = at_backup.keys
                         THEN at_backup ELSE NoBackupCall
    /\ session_before' = session_state
    /\ NotSession

NextSession ==
    \/ widget_set
    \/ widget_dropped
    \/ backup_keys_call
    \/ restore_backup_call

SpecSession == Init /\ [][NextSession]_vars

\* the user clicks a site of another variant on the map
select_variant ==
    /\ \E variant \in Variants :
         /\ session_state' = Put(session_state, "selected_variant", variant)
         /\ last_call' = [op |-> "select", keys |-> <<>>]
    /\ session_before' = session_state
    /\ at_backup' = NoBackupCall
    /\ NotSession

\* the user types the net acres
net_acres_set ==
    /\ \E n \in 1..MaxValue :
         /\ session_state' = Put(session_state, "net_acres", IntValue(n))
         /\ last_call' = [op |-> "set", keys |-> <<"net_acres">>]
    /\ session_before' = session_state
    /\ at_backup' = NoBackupCall
    /\ NotSession

\* the variant and the preset that planting_sliders works with
SelectedVariant(ss) == Get(ss, "selected_variant", DefaultVariant)
PresetOf(variant) == IF variant \in DOMAIN Presets THEN Presets[variant] ELSE Presets["PN"]

\* planting_sliders: _init_planting_state(variant, preset)
init_planting_state_call ==
    /\ LET variant == SelectedVariant(session_state)
       IN  session_state' = init_planting_state(session_state, variant, PresetOf(variant))
    /\ last_call' = [op |-> "init", keys |-> <<>>]
    /\ session_before' = session_state
    /\ at_backup' = NoBackupCall
    /\ NotSession

NextPlanting ==
    \/ select_variant
    \/ net_acres_set
    \/ widget_set
    \/ widget_dropped
    \/ init_planting_state_call

SpecPlanting == Init /\ [][NextPlanting]_vars

(***************************************************************************)
(* Properties.                                                             *)
(***************************************************************************)
ProtocolsOf(df) == {df[k].Protocol : k \in 1..Len(df)}
RowsOf(df, P) == {k \in 1..Len(df) : df[k].Protocol = P}
YearsOf(df, P) == {df[k].Year : k \in RowsOf(df, P)}

\* the rows of P are adjacent in the table and hold one row per consecutive
\* year, in year order
ConsecutiveSeries(df, P) ==
    \A i \in RowsOf(df, P) : \A j \in RowsOf(df, P) :
        /\ df[j].Year - df[i].Year = j - i
        /\ \A k \in 1..Len(df) : (i < k /\ k < j) => k \in RowsOf(df, P)

ColumnSum(rows, P, Col(_)) ==
    RSum(Tup([k \in 1..Len(rows) |-> IF rows[k].Protocol = P THEN Col(rows[k]) ELSE Zero]))

SoldTotal(rows, P) == ColumnSum(rows, P, LAMBDA r : r.CUs_Sold)
AvailableTotal(rows, P) == ColumnSum(rows, P, LAMBDA r : r.CU)

ProformaDone == pf_req # NoRequest /\ df_pf.status = "ok"

FullWindows(df, P, year_start) ==
    /\ ConsecutiveSeries(df, P)
    /\ \A y \in YearsOf(df, P) : y >= year_start - 4
    /\ \E y \in YearsOf(df, P) :
         /\ \A z \in YearsOf(df, P) : z <= y
         /\ y >= year_start /\ (y - year_start) % 5 = 0

\* C1 as stated: for every per-protocol CU series the units sold add up to
\* the units available.
C1_ConservationForAnySeries ==
    ProformaDone =>
        \A P \in ProtocolsOf(pf_req.df_ert_ac) :
            SoldTotal(df_pf.rows, P) = AvailableTotal(df_pf.rows, P)

\* C1 amended: the units sold add up to the units available for a series of
\* consecutive years that starts no earlier than year_start - 4 and ends on
\* a sale year.
C1_ConservationForFullWindows ==
    ProformaDone =>
        \A P \in ProtocolsOf(pf_req.df_ert_ac) :
            FullWindows(pf_req.df_ert_ac, P, pf_req.params.year_start)
                => SoldTotal(df_pf.rows, P) = AvailableTotal(df_pf.rows, P)

C1_Witness ==
    /\ ProformaDone
    /\ pf_req.params.net_acres # Zero
    /\ \E P \in ProtocolsOf(pf_req.df_ert_ac) :
         /\ FullWindows(pf_req.df_ert_ac, P, pf_req.params.year_start)
         /\ Cardinality({k \in RowsOf(df_pf.rows, P) : df_pf.rows[k].CUs_Sold # Zero}) >= 2
         /\ \E k \in RowsOf(df_pf.rows, P) : df_pf.rows[k].CU_ac # One

\* the units available (CU per acre x net_acres) of P in the years lo..hi
UnitsInYears(df, P, lo, hi, acres) ==
    RSum(Tup([k \in 1..Len(df) |->
        IF df[k].Protocol = P /\ lo <= df[k].Year /\ df[k].Year <= hi
        THEN RMul(df[k].CU, acres) ELSE Zero]))

Doubled(p) == [p EXCEPT !.net_acres = RMul(RInt(2), @)]

SummariesWithDoubledAcres ==
    compute_summaries(compute_proforma(pf_req.df_ert_ac, Doubled(pf_req.params)).rows,
                      Doubled(pf_req.params)).rows

DoublingDoublesSummaries ==
    LET twice == SummariesWithDoubledAcres
    IN  \A k \in 1..Len(summaries_df.rows) :
            /\ twice[k].total_net = RMul(RInt(2), summaries_df.rows[k].total_net)
            /\ twice[k].npv_yr20 = RMul(RInt(2), summaries_df.rows[k].npv_yr20)
            /\ twice[k].npv_per_acre = summaries_df.rows[k].npv_per_acre

NoFixedCosts(p) ==
    /\ p.validation_cost = Zero /\ p.verification_cost = Zero
    /\ p.registry_fees = Zero /\ p.planting_cost = Zero /\ p.seedling_cost = Zero
    /\ (p.num_plots = Zero \/ p.cost_per_cfi_plot = Zero \/ p.anticipated_inflation = <<-1, 1>>)

\* C3 as stated: for any financial parameters, doubling net_acres doubles
\* total_net and npv_yr20 of every protocol and leaves npv_per_acre unchanged.
C3_DoublingForAnyParams == ProformaDone => DoublingDoublesSummaries

\* C3 amended: doubling net_acres doubles total_net and npv_yr20 and leaves
\* npv_per_acre unchanged when the costs that do not scale with the units
\* sold (validation, verification, survey, registry, planting, seedling) are
\* all zero.
C3_DoublingWithoutFixedCosts ==
    (ProformaDone /\ NoFixedCosts(pf_req.params)) => DoublingDoublesSummaries

C3_Witness ==
    /\ ProformaDone
    /\ NoFixedCosts(pf_req.params)
    /\ pf_req.params.net_acres # Zero
    /\ \E k \in 1..Len(summaries_df.rows) :
         /\ summaries_df.rows[k].npv_yr20 # Zero
         /\ summaries_df.rows[k].total_net # summaries_df.rows[k].npv_yr20

\* C10: Validation_and_Verification is validation_cost in the row of
\* year_start, verification_cost in the rows of the years year_start + 5k,
\* k >= 1, and 0 in every other row.
C10_ValidationVerificationSchedule ==
    ProformaDone =>
        \A k \in 1..Len(df_pf.rows) :
            LET r == df_pf.rows[k]
                d == r.Year - pf_req.params.year_start
            IN  r.Validation_and_Verification =
                  IF d = 0 THEN pf_req.params.validation_cost
                  ELSE IF d > 0 /\ d % 5 = 0 THEN pf_req.params.verification_cost
                  ELSE Zero

C10_Witness ==
    /\ ProformaDone
    /\ pf_req.params.validation_cost # Zero
    /\ pf_req.params.verification_cost # Zero
    /\ pf_req.params.verification_cost # pf_req.params.validation_cost
    /\ \E k1 \in 1..Len(df_pf.rows), k2 \in 1..Len(df_pf.rows), k3 \in 1..Len(df_pf.rows) :
         /\ df_pf.rows[k1].Year = pf_req.params.year_start
         /\ df_pf.rows[k1].Validation_and_Verification = pf_req.params.validation_cost
         /\ df_pf.rows[k2].Year = pf_req.params.year_start + 5
         /\ df_pf.rows[k2].Validation_and_Verification = pf_req.params.verification_cost
         /\ df_pf.rows[k3].Year = pf_req.params.year_start + 1
         /\ df_pf.rows[k3].Validation_and_Verification = Zero

UnitsDone == units_req.via # "none"

Converted == UnitsDone /\ merged.status = "ok"

\* the rule the j-th requested protocol is converted with
FrameRules(j) == RulesFor(units_req.ruleset, units_req.protocols[j])

BufferBelowOne(rules) ==
    rules.apply_buf /\ RLe(Zero, rules.BUF) /\ ~RLe(One, rules.BUF)

\* C4 as stated: under a rule with a buffer, 0 <= BUF < 1, every row of every
\* carbon series has 0 <= CU <= C_total.
C4_UnitsBetweenZeroAndTotal ==
    Converted =>
        \A j \in 1..Len(merged.frames) :
            BufferBelowOne(FrameRules(j)) =>
                \A i \in 1..Len(merged.frames[j]) :
                    LET r == merged.frames[j][i]
                    IN  HasCU(r) => RLe(Zero, r.CU) /\ RLe(r.CU, r.C_total)

\* C4 amended: under a rule with a buffer, 0 <= BUF < 1, CU lies between 0
\* and C_total: 0 <= CU <= C_total in a year whose net delta is not negative,
\* C_total <= CU <= 0 in a year whose net delta is negative.
C4_UnitsBetweenZeroAndTotalBySign ==
    Converted =>
        \A j \in 1..Len(merged.frames) :
            BufferBelowOne(FrameRules(j)) =>
                \A i \in 1..Len(merged.frames[j]) :
                    LET r == merged.frames[j][i]
                    IN  HasCU(r) =>
                          IF RLe(Zero, r.C_total)
                          THEN RLe(Zero, r.CU) /\ RLe(r.CU, r.C_total)
                          ELSE RLe(r.C_total, r.CU) /\ RLe(r.CU, Zero)

C4_Witness ==
    /\ Converted
    /\ \E j \in 1..Len(merged.frames) :
         /\ BufferBelowOne(FrameRules(j))
         /\ FrameRules(j).BUF # Zero
         /\ \E i1 \in 1..Len(merged.frames[j]), i2 \in 1..Len(merged.frames[j]) :
              LET r1 == merged.frames[j][i1]
                  r2 == merged.frames[j][i2]
              IN  /\ HasCU(r1) /\ ~RLe(r1.C_total, Zero) /\ r1.CU # r1.C_total
                  /\ HasCU(r2) /\ ~RLe(Zero, r2.C_total) /\ r2.CU # r2.C_total

\* the frame of protocol P alone, for the carbon rows and rules of the request
FrameOf(P) ==
    ProtocolLoop(units_req.carbon_rows, <<P>>, units_req.ruleset).frames[1]

GSAlone ==
    /\ Converted
    /\ units_req.protocols = <<"GS">>
    /\ units_req.ruleset.table = DefaultRules

SameDeltas(a, b) ==
    /\ a.Year = b.Year
    /\ a.delta_project = b.delta_project
    /\ a.C_total = b.C_total

\* C5 as stated: for any carbon input, GS and ACR/CAR/VERRA give the same
\* deltas and different CU in every year of the result.
C5_SameDeltasDifferentUnits ==
    GSAlone =>
        LET gs == merged.frames[1]
            acr == FrameOf(ACR)
        IN  /\ Len(gs) = Len(acr)
            /\ \A i \in 1..Len(gs) :
                 HasCU(gs[i]) => SameDeltas(gs[i], acr[i]) /\ gs[i].CU # acr[i].CU

\* C5 amended: GS and ACR/CAR/VERRA give the same deltas in every year, and
\* different CU exactly in the years whose net delta is not 0.
C5_SameDeltasUnitsDifferWhereDeltaNonzero ==
    GSAlone =>
        LET gs == merged.frames[1]
            acr == FrameOf(ACR)
        IN  /\ Len(gs) = Len(acr)
            /\ \A i \in 1..Len(gs) :
                 HasCU(gs[i]) =>
                    /\ SameDeltas(gs[i], acr[i])
                    /\ (gs[i].CU # acr[i].CU) <=> (gs[i].C_total # Zero)

C5_Witness ==
    /\ GSAlone
    /\ LET gs == merged.frames[1]
           acr == FrameOf(ACR)
       IN  \E i1 \in 1..Len(gs), i2 \in 1..Len(gs) :
              /\ HasCU(gs[i1]) /\ gs[i1].C_total # Zero /\ gs[i1].CU # acr[i1].CU
              /\ HasCU(gs[i2]) /\ gs[i2].C_total = Zero /\ gs[i2].CU = acr[i2].CU

BufferFraction(P) ==
    IF P = "GS" THEN Zero ELSE IF P = ACR THEN <<1, 5>> ELSE <<1, 4>>

\* C6: with the default rule table, CU = net delta for GS, net delta minus
\* 0.20 x net delta for ACR/CAR/VERRA and net delta minus 0.25 x net delta
\* for ISO, in every year, and the returned rows carry these CU.
C6_DefaultRuleTable ==
    (Converted /\ units_req.ruleset.table = DefaultRules) =>
        /\ \A j \in 1..Len(merged.frames) :
             units_req.protocols[j] \in {"GS", ACR, "ISO"} =>
                \A i \in 1..Len(merged.frames[j]) :
                    LET r == merged.frames[j][i]
                    IN  HasCU(r) =>
                          /\ r.C_total = RSub(r.delta_project, r.delta_baseline)
                          /\ r.CU = RSub(r.C_total,
                                         RMul(BufferFraction(units_req.protocols[j]), r.C_total))
        /\ df_units.rows = ConcatUnits(merged.frames)

\* net deltas 10, 10, 10: CU 10, 10, 10 for GS and 8, 8, 8 for ACR/CAR/VERRA
C6_Witness ==
    /\ Converted
    /\ units_req.ruleset.table = DefaultRules
    /\ units_req.protocols = <<"GS", ACR>>
    /\ Len(df_units.rows) = 6
    /\ \A k \in 1..3 :
         /\ merged.frames[1][k + 1].C_total = RInt(10)
         /\ df_units.rows[k] = [Year |-> YearZero + k, CU |-> RInt(10), Protocol |-> "GS"]
         /\ df_units.rows[k + 3] = [Year |-> YearZero + k, CU |-> RInt(8), Protocol |-> ACR]

\* a carbon series the spline can be fitted to
ValidSeries(df) ==
    /\ Len(df) >= SplineOrder + 1
    /\ StrictlyIncreasing(LET s == SortByYear(df)
                          IN  Tup([i \in 1..Len(s) |-> s[i].Year]))

\* C7: a requested protocol without an entry in the ruleset in effect does
\* not make the conversion fail; its rows carry the requested id and the CU
\* of the ACR/CAR/VERRA rule.
C7_UnknownProtocolFallsBack ==
    (UnitsDone /\ ValidSeries(units_req.carbon_rows)) =>
        \A j \in 1..Len(units_req.protocols) :
            units_req.protocols[j] \notin DOMAIN units_req.ruleset.table =>
                /\ merged.status = "ok"
                /\ df_units.status = "ok"
                /\ LET acr == FrameOf(ACR)
                   IN  \A i \in 1..Len(merged.frames[j]) :
                          /\ merged.frames[j][i].Protocol = units_req.protocols[j]
                          /\ merged.frames[j][i].CU = acr[i].CU

\* C8: with an empty protocol list the converter returns an empty result
\* and raises nothing.
C8_EmptyProtocolListGivesEmptyResult ==
    (UnitsDone /\ units_req.protocols = <<>>) =>
        df_units.status = "ok" /\ df_units.rows = <<>>

\* C9: a carbon series of fewer than 4 data points is still converted to a
\* series of carbon units; no error is raised.
C9_FewPointsStillConverted ==
    (/\ UnitsDone
     /\ Len(units_req.carbon_rows) \in 1..SplineOrder
     /\ units_req.protocols # <<>>
     /\ ACR \in DOMAIN units_req.ruleset.table
     /\ ~units_req.ruleset.as_model) =>
        df_units.status = "ok" /\ Len(df_units.rows) > 0

SurveyAmount(p) ==
    RMul(RMul(p.num_plots, p.cost_per_cfi_plot), RAdd(One, p.anticipated_inflation))

\* C11: Survey_Cost is num_plots x cost_per_cfi_plot x (1 + anticipated_inflation)
\* in exactly the rows with (Year - year_start) mod 5 = 4 and 0 in every
\* other row; the amount is the same in every survey year.
C11_SurveyCostSchedule ==
    ProformaDone =>
        \A k \in 1..Len(df_pf.rows) :
            LET r == df_pf.rows[k]
            IN  r.Survey_Cost =
                  IF (r.Year - pf_req.params.year_start) % 5 = 4
                  THEN SurveyAmount(pf_req.params)
                  ELSE Zero

\* a survey of 90 in the year before year_start and in year_start + 4, none
\* in year_start
C11_Witness ==
    /\ ProformaDone
    /\ SurveyAmount(pf_req.params) = RInt(90)
    /\ \E k1 \in 1..Len(df_pf.rows), k2 \in 1..Len(df_pf.rows), k3 \in 1..Len(df_pf.rows) :
         /\ df_pf.rows[k1].Year = pf_req.params.year_start + 4
         /\ df_pf.rows[k1].Survey_Cost = RInt(90)
         /\ df_pf.rows[k2].Year = pf_req.params.year_start - 1
         /\ df_pf.rows[k2].Survey_Cost = RInt(90)
         /\ df_pf.rows[k3].Year = pf_req.params.year_start
         /\ df_pf.rows[k3].Survey_Cost = Zero

SaleYear(year, year_start) == year >= year_start /\ (year - year_start) % 5 = 0

FlatCosts(p) == RAdd(RAdd(p.registry_fees, p.planting_cost), p.seedling_cost)

\* C12: in every row Total_Costs is the sum of the six cost columns, with the
\* registry fee, planting cost and seedling cost as given (N rows of a protocol
\* carry N times their sum), Issuance_Fees is 0 outside the sale years, and
\* Net_Revenue = Total_Revenue - Total_Costs.
C12_TotalCostsAndNetRevenue ==
    ProformaDone =>
        /\ \A k \in 1..Len(df_pf.rows) :
             LET r == df_pf.rows[k]
                 p == pf_req.params
             IN  /\ r.Registry_Fees = p.registry_fees
                 /\ r.Planting_Cost = p.planting_cost
                 /\ r.Seedling_Cost = p.seedling_cost
                 /\ r.Total_Costs =
                      RSum(<<r.Validation_and_Verification, r.Survey_Cost, r.Registry_Fees,
                             r.Issuance_Fees, r.Planting_Cost, r.Seedling_Cost>>)
                 /\ ~SaleYear(r.Year, p.year_start) => r.Issuance_Fees = Zero
                 /\ r.Net_Revenue = RSub(r.Total_Revenue, r.Total_Costs)
        /\ \A P \in ProtocolsOf(df_pf.rows) :
             ColumnSum(df_pf.rows, P,
                       LAMBDA r : RSum(<<r.Registry_Fees, r.Planting_Cost, r.Seedling_Cost>>))
               = RMul(RInt(Cardinality(RowsOf(df_pf.rows, P))), FlatCosts(pf_req.params))

C12_Witness ==
    /\ ProformaDone
    /\ FlatCosts(pf_req.params) = RInt(15)
    /\ \E P \in ProtocolsOf(df_pf.rows) :
         /\ Cardinality(RowsOf(df_pf.rows, P)) >= 3
         /\ \E k1 \in RowsOf(df_pf.rows, P), k2 \in RowsOf(df_pf.rows, P) :
              /\ SaleYear(df_pf.rows[k1].Year, pf_req.params.year_start)
              /\ df_pf.rows[k1].Issuance_Fees # Zero
              /\ df_pf.rows[k1].Net_Revenue # Zero
              /\ ~SaleYear(df_pf.rows[k2].Year, pf_req.params.year_start)
              /\ df_pf.rows[k2].Issuance_Fees = Zero
              /\ df_pf.rows[k2].Total_Costs # Zero

FirstYearOf(rows, P) == CHOOSE y \in YearsOf(rows, P) : \A z \in YearsOf(rows, P) : y <= z

\* the Net_Revenue of P in the years up to year_start + 20, each discounted
\* by the number of years since P's first year
NpvByYear(rows, P, p) ==
    LET rate == RAdd(p.anticipated_inflation, p.discount_rate)
    IN  RSum(Tup([k \in 1..Len(rows) |->
            IF rows[k].Protocol = P /\ rows[k].Year <= p.year_start + 20
            THEN RDiv(rows[k].Net_Revenue,
                      RPow(RAdd(One, rate), rows[k].Year - FirstYearOf(rows, P)))
            ELSE Zero]))

\* one row for every year from the first to the last year of P
ContiguousYears(rows, P) ==
    /\ \A y \in YearsOf(rows, P) : \A z \in YearsOf(rows, P) :
          \A w \in y..z : w \in YearsOf(rows, P)
    /\ Cardinality(RowsOf(rows, P)) = Cardinality(YearsOf(rows, P))

ZeroAcres == pf_req # NoRequest /\ df_pf.status = "ok" /\ pf_req.params.net_acres = Zero

\* C14 as stated: with net_acres = 0 computing the summary fails with a
\* division by zero; no summary is returned.
C14_ZeroAcresDivisionByZero ==
    ZeroAcres => summaries_df.status = "ZeroDivisionError" /\ summaries_df.rows = <<>>

\* C14 amended: with net_acres = 0 the division is guarded: compute_summaries
\* returns the summary of every protocol with total_net and npv_yr20 computed
\* and npv_per_acre None; run_proforma then fails on its response, whose
\* npv_per_acre must be a number.
C14_ZeroAcresGuarded ==
    ZeroAcres =>
        /\ summaries_df.status = "ok"
        /\ Len(summaries_df.rows) = Cardinality(ProtocolsOf(df_pf.rows))
        /\ \A k \in 1..Len(summaries_df.rows) :
             /\ summaries_df.rows[k].npv_per_acre = None
             /\ IsNum(summaries_df.rows[k].npv_yr20)
             /\ IsNum(summaries_df.rows[k].total_net)
        /\ http_status = "500"

C14_Witness ==
    /\ ZeroAcres
    /\ Len(summaries_df.rows) = 2
    /\ \A k \in 1..2 :
         /\ summaries_df.rows[k].npv_yr20 # Zero
         /\ summaries_df.rows[k].npv_per_acre = None
    /\ http_status = "500"

\* the proforma of the rows of P passed alone
ProformaAlone(P) == compute_proforma(OfProtocol(pf_req.df_ert_ac, P), pf_req.params).rows

\* C19: the proforma rows of a protocol P are the rows compute_proforma gives
\* for P's CU rows alone, wherever P's rows stand in the input table.
C19_ProtocolsIndependent ==
    ProformaDone =>
        \A P \in ProtocolsOf(pf_req.df_ert_ac) :
            OfProtocol(df_pf.rows, P) = ProformaAlone(P)

CarbonDone == carbon_req # NoRequest

\* the coefficients of year y in the table of the request
CoefOf(y) ==
    LET j == CHOOSE j \in 1..Len(carbon_req.coefficients) : carbon_req.coefficients[j].key = y
    IN  carbon_req.coefficients[j].coef

\* C15: before rounding, compute_carbon_scores gives one row per key of the
\* coefficients table, in numeric year order; the annual score of the first
\* year is its cumulative score and the annual score of every later year is
\* its cumulative score minus that of the preceding year, whatever the order
\* of the keys in the table.
C15_AnnualIsDifferenceOfCumulative ==
    CarbonDone =>
        /\ Len(c_scores) = Len(carbon_req.coefficients)
        /\ \A i \in 1..Len(c_scores) :
             /\ \E j \in 1..Len(carbon_req.coefficients) :
                  carbon_req.coefficients[j].key = c_scores[i].Year
             /\ c_scores[i].C_Score = CScore(CoefOf(c_scores[i].Year), carbon_req.inputs)
             /\ i = 1 => c_scores[i].Annual_C_Score = c_scores[i].C_Score
             /\ i > 1 =>
                  /\ c_scores[i - 1].Year < c_scores[i].Year
                  /\ c_scores[i].Annual_C_Score =
                       RSub(c_scores[i].C_Score, c_scores[i - 1].C_Score)

\* a table of three years whose keys are not in year order
C15_Witness ==
    /\ CarbonDone
    /\ Len(c_scores) = 3
    /\ carbon_req.coefficients[1].key > carbon_req.coefficients[2].key
    /\ carbon_req.coefficients[2].key < carbon_req.coefficients[3].key
    /\ \A i \in 2..3 :
         /\ c_scores[i].Annual_C_Score # Zero
         /\ c_scores[i].Annual_C_Score # c_scores[i].C_Score

\* C16: the cumulative carbon score of a planting scenario never decreases
\* from a year to a later year.
C16_CumulativeScoreNonDecreasing ==
    CarbonDone =>
        \A i \in 1..Len(c_scores), j \in 1..Len(c_scores) :
            c_scores[i].Year <= c_scores[j].Year =>
                RLe(c_scores[i].C_Score, c_scores[j].C_Score)

\* C17: the response of calculate_carbon starts with the row of year 2024
\* with both scores 0, followed by the rows of compute_carbon_scores
\* unchanged; the annual score of the first modelled year is its cumulative
\* score minus the score of year 0.
C17_YearZeroRowFirst ==
    CarbonDone =>
        /\ carbon_df[1] = [Year |-> 2024, C_Score |-> Zero, Annual_C_Score |-> Zero]
        /\ Tail(carbon_df) = compute_carbon_scores(carbon_req.coefficients, carbon_req.inputs)
        /\ Len(carbon_df) >= 2 =>
             carbon_df[2].Annual_C_Score = RSub(carbon_df[2].C_Score, carbon_df[1].C_Score)

\* three modelled years, the first of them with a score that rounding changed
C17_Witness ==
    /\ CarbonDone
    /\ Len(carbon_df) = 4
    /\ carbon_df[1].Year = 2024
    /\ carbon_df[2].C_Score # Zero
    /\ carbon_df[2].C_Score # c_scores[1].C_Score
    /\ carbon_df[2].Annual_C_Score = carbon_df[2].C_Score

InputYears == {units_req.carbon_rows[i].Year : i \in 1..Len(units_req.carbon_rows)}

FirstInputYear == CHOOSE y \in InputYears : \A z \in InputYears : y <= z

LastInputYear == CHOOSE y \in InputYears : \A z \in InputYears : z <= y

\* the rows of the result for protocol P and year y
UnitRowsOf(P, y) ==
    {k \in 1..Len(df_units.rows) : df_units.rows[k].Protocol = P /\ df_units.rows[k].Year = y}

\* C18: for a carbon series of at least 4 distinct years the result of
\* compute_carbon_units holds, for each requested protocol, exactly one row
\* for every year from the first to the last input year.
C18_OneRowPerYearOfRange ==
    (UnitsDone /\ ValidSeries(units_req.carbon_rows) /\ df_units.status = "ok") =>
        \A j \in 1..Len(units_req.protocols) :
            /\ \A y \in FirstInputYear..LastInputYear :
                 Cardinality(UnitRowsOf(units_req.protocols[j], y)) = 1
            /\ \A k \in 1..Len(df_units.rows) :
                 df_units.rows[k].Year \in FirstInputYear..LastInputYear

RestoreDone == last_call.op = "restore"

RequestedKeys == {last_call.keys[i] : i \in 1..Len(last_call.keys)}

BackupBefore ==
    IF Has(session_before, BackupName) THEN session_before[BackupName] ELSE EmptyDict

\* C20: _restore_backup never changes the value of a key that is present in
\* session state; it sets a key only if the key is requested, missing from
\* session state and present in the backup (to the value of the backup); and
\* it changes nothing when there is no backup.
C20_RestoreOnlyFillsMissingKeys ==
    RestoreDone =>
        /\ \A k \in DOMAIN session_before :
             Has(session_state, k) /\ session_state[k] = session_before[k]
        /\ \A k \in DOMAIN session_state \ DOMAIN session_before :
             /\ k \in RequestedKeys
             /\ Has(BackupBefore, k)
             /\ session_state[k] = BackupBefore[k]
        /\ (~Has(session_before, BackupName) => session_state = session_before)

\* a restore that fills one requested key from the backup and leaves alone
\* another requested key whose value differs from the backup's
C20_Witness ==
    /\ RestoreDone
    /\ \E k \in RequestedKeys : Has(session_state, k) /\ ~Has(session_before, k)
    /\ \E k \in RequestedKeys :
         /\ Has(session_before, k)
         /\ Has(BackupBefore, k)
         /\ BackupBefore[k] # session_before[k]

InitDone == last_call.op = "init"

SameVariant ==
    /\ Has(session_before, "_last_variant")
    /\ session_before["_last_variant"] = SelectedVariant(session_before)

\* C21: _init_planting_state leaves the whole session state unchanged when
\* the given variant equals the stored _last_variant.
C21_InitKeepsStateOfSameVariant ==
    (InitDone /\ SameVariant) => session_state = session_before

\* a run of _init_planting_state for the stored variant, with sliders and net
\* acres that differ from the presets and defaults
C21_Witness ==
    /\ InitDone
    /\ SameVariant
    /\ Has(session_state, "net_acres")
    /\ session_state["net_acres"] # IntValue(DefaultNetAcres)
    /\ Has(session_state, "tpa_df")
    /\ session_state["tpa_df"] # PresetOf(SelectedVariant(session_before))["tpa_df"]

\* C26: after _init_planting_state ran with a changed variant, a net_acres
\* value that was in session state before is still there.
C26_NetAcresSurvivesVariantChange ==
    (InitDone /\ ~SameVariant /\ Has(session_before, "net_acres")) =>
        /\ Has(session_state, "net_acres")
        /\ session_state["net_acres"] = session_before["net_acres"]

\* a _restore_backup(keys) that follows _backup_keys(keys) with nothing but
\* removals of these keys (and restores) in between
RoundTripDone == RestoreDone /\ at_backup.intact

\* C27 as stated: after the round trip every key that was present at backup
\* time is present with exactly the value and type it had at backup time.
C27_RoundTripExact ==
    RoundTripDone =>
        \A k \in DOMAIN at_backup.raw :
            Has(session_state, k) /\ session_state[k] = at_backup.raw[k]

\* C27, amended: after the round trip every key that was present at backup
\* time is present again; a key that was not removed has the value it had, and
\* a removed key has the value it had with a string of digits turned into the
\* int it denotes.
C27_RoundTripUpToIntCast ==
    RoundTripDone =>
        \A k \in DOMAIN at_backup.raw :
            /\ Has(session_state, k)
            /\ session_state[k] =
                   IF k \in at_backup.removed /\ at_backup.raw[k].kind = "str"
                   THEN [kind |-> "int", v |-> at_backup.raw[k].v]
                   ELSE at_backup.raw[k]

\* a round trip that brings back a removed string of digits and keeps a key
\* that was not removed
C27_Witness ==
    /\ RoundTripDone
    /\ \E k \in at_backup.removed :
         Has(at_backup.raw, k) /\ at_backup.raw[k].kind = "str" /\ Has(session_state, k)
    /\ \E k \in DOMAIN at_backup.raw : k \notin at_backup.removed

\* the units available to protocol P in the calendar years y - 4 .. y
CalendarSum(P, y) ==
    RSum(Tup([k \in 1..Len(df_pf.rows) |->
        IF df_pf.rows[k].Protocol = P /\ df_pf.rows[k].Year \in (y - TrailingRows)..y
        THEN NumOrZero(df_pf.rows[k].CU) ELSE Zero]))

\* C22: in every row of a sale year Y, CUs_Sold is the sum of the units of
\* the protocol's rows of the calendar years Y-4..Y, whatever the order of the
\* rows of the input table and whatever years are missing from it.
C22_SoldByCalendarYears ==
    ProformaDone =>
        \A k \in 1..Len(df_pf.rows) :
            IsSaleYear(df_pf.rows[k].Year, pf_req.params) =>
                df_pf.rows[k].CUs_Sold = CalendarSum(df_pf.rows[k].Protocol, df_pf.rows[k].Year)

\* the rows of every protocol of the request are one row per consecutive year
ConsecutiveYears ==
    \A P \in ProtocolsOf(pf_req.df_ert_ac) :
        LET sub == OfProtocol(pf_req.df_ert_ac, P)
        IN  \A k \in 1..(Len(sub) - 1) : sub[k + 1].Year = sub[k].Year + 1

\* the labels of the rows in which units are sold
SaleLabels ==
    {i \in 0..(Len(pf_req.df_ert_ac) - 1) :
        IsSaleYear(pf_req.df_ert_ac[i + 1].Year, pf_req.params)}

\* the labels of the rows whose units are sold in some sale year
SoldLabels == UNION {WindowLabels(pf_req.df_ert_ac, i, TrailingRows) : i \in SaleLabels}

\* C23: for series of one row per consecutive year the trailing windows of
\* two sale years share no row, and the units sold over all sale years of a
\* protocol are the units of the rows inside its windows, each counted once.
C23_WindowsNeverOverlap ==
    (ProformaDone /\ ConsecutiveYears) =>
        /\ \A i \in SaleLabels, j \in SaleLabels :
             i # j => WindowLabels(pf_req.df_ert_ac, i, TrailingRows)
                        \cap WindowLabels(pf_req.df_ert_ac, j, TrailingRows) = {}
        /\ \A P \in ProtocolsOf(pf_req.df_ert_ac) :
             RSum(Tup([k \in 1..Len(df_pf.rows) |->
                        IF df_pf.rows[k].Protocol = P THEN df_pf.rows[k].CUs_Sold ELSE Zero]))
               = RSum(Tup([k \in 1..Len(pf_req.df_ert_ac) |->
                        IF (k - 1) \in SoldLabels /\ pf_req.df_ert_ac[k].Protocol = P
                        THEN RMul(pf_req.df_ert_ac[k].CU, pf_req.params.net_acres)
                        ELSE Zero]))

\* two protocols with two sale years each, the later window five rows long
C23_Witness ==
    /\ ProformaDone
    /\ ConsecutiveYears
    /\ Cardinality(ProtocolsOf(pf_req.df_ert_ac)) = 2
    /\ Cardinality(SaleLabels) = 4
    /\ \E i \in SaleLabels :
         Cardinality(WindowLabels(pf_req.df_ert_ac, i, TrailingRows)) = TrailingRows + 1
    /\ pf_req.params.net_acres # Zero

\* the proforma of the rows that compute_carbon_units made of a carbon series
\* that begins in the project start year
PipelineFromStartYear ==
    /\ ProformaDone
    /\ pf_req.via = "units"
    /\ FirstInputYear = pf_req.params.year_start

\* C24: in the pipeline, when the carbon rows begin in the project start year,
\* the proforma has one row of the start year for every protocol, and
\* validation_cost is charged in that row and in no other row of the protocol.
C24_PipelineChargesValidationOnce ==
    PipelineFromStartYear =>
        \A j \in 1..Len(units_req.protocols) :
            LET P == units_req.protocols[j]
                start == {k \in 1..Len(df_pf.rows) :
                             /\ df_pf.rows[k].Protocol = P
                             /\ df_pf.rows[k].Year = pf_req.params.year_start}
            IN  /\ Cardinality(start) = 1
                /\ \A k \in start :
                     df_pf.rows[k].Validation_and_Verification = pf_req.params.validation_cost

\* every requested protocol has its own entry in the ruleset in effect
OwnEntries ==
    /\ Len(units_req.protocols) > 0
    /\ \A j \in 1..Len(units_req.protocols) :
         units_req.protocols[j] \in DOMAIN units_req.ruleset.table

\* C28: when every requested protocol has its own entry in the ruleset in
\* effect, a convertible carbon series is converted, each protocol with its own
\* entry, whether or not the ruleset has an entry for ACR/CAR/VERRA.
C28_OwnEntrySuffices ==
    (UnitsDone /\ ValidSeries(units_req.carbon_rows) /\ OwnEntries
       /\ ~units_req.ruleset.as_model) =>
        /\ merged.status = "ok"
        /\ Len(merged.frames) = Len(units_req.protocols)
        /\ \A j \in 1..Len(units_req.protocols) :
             merged.frames[j] =
                 Merged(units_req.carbon_rows,
                        units_req.ruleset.table[units_req.protocols[j]],
                        units_req.protocols[j])

PageDone == carbon_req # NoRequest /\ carbon_req.via = "page"

\* C29: in the data frame of the Planting Scenario page the Annual_C_Score of
\* every row after the first is the row's C_Score minus the C_Score of the
\* row before it.
C29_PageAnnualIsDifference ==
    PageDone =>
        \A i \in 2..Len(carbon_df) :
            carbon_df[i].Annual_C_Score =
                RSub(carbon_df[i].C_Score, carbon_df[i - 1].C_Score)

ConfigDone == api_config # NoRequest

\* C30: when ENV is production, get_api_base_url does not return a URL whose
\* host name is localhost or 127.0.0.1, in any spelling of its letters and
\* whether the secrets, the environment variable or the default supplied it:
\* it raises RuntimeError for such a URL, and returns every other URL.
C30_NoLocalhostInProduction ==
    (ConfigDone /\ api_config.ENV = "production") =>
        LET api_url == ResolvedUrl(api_config.secret, api_config.environ)
            isLocal == /\ api_url.scheme \in {"http", "https"}
                       /\ api_url.host \in {"localhost", "LOCALHOST", "127.0.0.1"}
        IN  /\ isLocal => api_base_url.status = "RuntimeError"
            /\ ~isLocal => api_base_url = [status |-> "ok", url |-> api_url]
            /\ api_base_url.status = "ok" =>
                   ~(/\ api_base_url.url.scheme \in {"http", "https"}
                     /\ api_base_url.url.host \in {"localhost", "LOCALHOST", "127.0.0.1"})

\* production without a secret and without the variable: the default is refused
C30_Witness ==
    /\ ConfigDone
    /\ api_config.ENV = "production"
    /\ api_config.secret = Unset
    /\ api_config.environ = EmptyUrl
    /\ api_base_url.status = "RuntimeError"

ProformaComputed == chart.run > 0 /\ chart.proforma_of.kind = "frame"

\* C25: whenever credits_results computes a proforma in a run of run_chart,
\* merged_df holds the CU rows of exactly the protocols selected in this run,
\* computed in this run.
C25_ProformaOfCurrentSelection ==
    ProformaComputed =>
        /\ chart.proforma_of.v.run = chart.run
        /\ chart.proforma_of.v.protocols = session_state["carbon_units_inputs"].v

====
